---- MODULE Spec2Model ----
(***************************************************************************)
(* Model of app.py: a Flask application with two resources, points and     *)
(* polygons, kept in two MySQL tables through Flask-SQLAlchemy.            *)
(*                                                                         *)
(* The server hands requests to worker threads.  A thread runs             *)
(* create_tables (the before_request hook), then the route handler, then   *)
(* the request teardown, which removes the thread's db.session.  A step    *)
(* of the model is a piece of app.py that reads or writes state shared     *)
(* between threads once: the test of tables_initialized, the two phases    *)
(* of db.create_all(), the assignment of the flag, a handler up to its     *)
(* commit (its query and the assignments to its own object), the commit.   *)
(* create_tables reads nothing of the request, so the request is drawn     *)
(* when the handler starts (data = request.json).                          *)
(*                                                                         *)
(* What app.py leaves to its libraries is modelled as they do it:          *)
(*  - db.session is a unit of work: commit() sends an INSERT for an added  *)
(*    object and, for a loaded one, an UPDATE of the attributes whose      *)
(*    value differs from the value loaded (none: no UPDATE);               *)
(*  - INSERT, UPDATE and COMMIT of one request are one atomic step (the    *)
(*    row lock of the UPDATE is held until the COMMIT);                    *)
(*  - db.Float is a single precision FLOAT column, read back with six      *)
(*    significant digits; nullable=False rejects a NULL;                   *)
(*  - db.create_all() looks up which tables exist, then creates the        *)
(*    absent ones.                                                         *)
(*                                                                         *)
(* JSON values are sequences of length at most one: << >> is null and      *)
(* <<v>> the value v.  A request body is a record whose domain is the set  *)
(* of keys present in the body.  A decimal number is its digits read as a  *)
(* natural number.                                                         *)
(***************************************************************************)
EXTENDS Integers, Sequences, FiniteSets, TLC

\* ------------------------------------------------------------- bounds
NumThreads == 2     \* worker threads of the server
MaxRows == 2        \* rows the database may hold before POSTs stop being sent

Threads == 1..NumThreads

\* The ids PUT and GET requests name: those rows can have, and one none has.
Ids == 1..(MaxRows + 1)

\* ------------------------------------------------------------- schema
Tables == {"point_data", "polygon_data"}

\* Mutable columns of a table, in the order the handlers assign them.
Columns(tbl) ==
    IF tbl = "point_data" THEN <<"name", "latitude", "longitude">>
                          ELSE <<"name", "coordinates">>

ColumnSet(tbl) == {Columns(tbl)[i] : i \in 1..Len(Columns(tbl))}

\* db.Float columns: MySQL FLOAT, single precision
FloatColumns == {"latitude", "longitude"}

Null == << >>

\* The table behind a route.
TableOf(route) == IF route = "point" THEN "point_data" ELSE "polygon_data"

\* ------------------------------------------------------------- columns
\* Decimal digits a MySQL FLOAT column gives back (FLT_DIG of single precision).
FloatDigits == 6

RECURSIVE Pow10(_)
Pow10(k) == IF k = 0 THEN 1 ELSE 10 * Pow10(k - 1)

\* n rounded to FloatDigits significant decimal digits.
RECURSIVE FloatRound(_)
FloatRound(n) ==
    IF n < Pow10(FloatDigits) THEN n ELSE 10 * FloatRound((n + 5) \div 10)

\* What a column holds, and a later SELECT returns, after v was written to it:
\* a db.Float column keeps single precision, db.String and db.Text keep the text.
ColumnValue(col, v) ==
    IF col \in FloatColumns /\ v # Null THEN <<FloatRound(v[1])>> ELSE v

\* nullable=False on every mutable column.
Nullable(tbl, col) == FALSE

\* ------------------------------------------------------------- database
\* db[tbl] is the set of committed rows of tbl; db.auto_increment[tbl] is the
\* id the next INSERT into tbl receives (db.Integer, primary_key=True).
EmptyDb ==
    [point_data |-> {}, polygon_data |-> {},
     auto_increment |-> [tbl \in Tables |-> 1]]

\* A bug Get could have: query.first(), which ignores the id.
GetFirst(d, tbl, id) == IF d[tbl] = {} THEN {} ELSE {CHOOSE r \in d[tbl] : TRUE}

\* Model.query.get(id): the row whose primary key is id, as a set of 0 or 1 rows.
Get(d, tbl, id) == {r \in d[tbl] : r.id = id}

\* A bug NextId could have: an id that is not generated but fixed.
NextIdFixed(d, tbl) == 1

\* The id an INSERT assigns.
NextId(d, tbl) == d.auto_increment[tbl]

\* The mutable attributes of a row, as an object loaded by the session has them.
Attrs(tbl, row) == [c \in ColumnSet(tbl) |-> row[c]]

\* ------------------------------------------------------------- session
\* A bug NewObject could have: handle_polygon building a PointData.
NewObjectPoint(tbl, attrs) ==
    [table |-> "point_data", id |-> 0, loaded |-> attrs, attrs |-> attrs]

\* An object of a session: id = 0 for one that was added and not yet inserted.
\* loaded are the attribute values the session read from the database, attrs
\* the present ones.
NewObject(tbl, attrs) ==
    [table |-> tbl, id |-> 0, loaded |-> attrs, attrs |-> attrs]

LoadedObject(tbl, row) ==
    [table |-> tbl, id |-> row.id, loaded |-> Attrs(tbl, row), attrs |-> Attrs(tbl, row)]

\* The columns the UPDATE of a loaded object sets: the unit of work compares
\* each attribute with the value it loaded and writes only those that differ.
Dirty(o) == {c \in ColumnSet(o.table) : o.attrs[c] # o.loaded[c]}

\* The INSERT or UPDATE of one object: an INSERT lists the attributes of the
\* object, an UPDATE the dirty ones.  A NULL for a NOT NULL column fails the
\* statement.
FlushOne(d, o) ==
    LET tbl == o.table
        cols == IF o.id = 0 THEN DOMAIN o.attrs ELSE Dirty(o)
    IN  IF \E c \in cols : o.attrs[c] = Null /\ ~Nullable(tbl, c)
        THEN [ok |-> FALSE, db |-> d]
        ELSE IF o.id = 0
        THEN LET row == [id |-> NextId(d, tbl)]
                        @@ [c \in cols |-> ColumnValue(c, o.attrs[c])]
             IN  [ok |-> TRUE,
                  db |-> [d EXCEPT ![tbl] = @ \cup {row},
                                   !.auto_increment[tbl] = @ + 1]]
        ELSE [ok |-> TRUE,
              db |-> [d EXCEPT ![tbl] =
                        {IF r.id = o.id
                         THEN [c \in DOMAIN r |->
                                 IF c \in cols THEN ColumnValue(c, o.attrs[c])
                                               ELSE r[c]]
                         ELSE r : r \in @}]]

\* db.session.commit(): flush every object of the session in order, in one
\* transaction; a failing statement rolls the whole transaction back.
RECURSIVE Flush(_, _, _)
Flush(d0, d, s) ==
    IF s = << >> THEN [ok |-> TRUE, db |-> d]
    ELSE LET one == FlushOne(d, Head(s))
         IN  IF one.ok THEN Flush(d0, one.db, Tail(s))
                       ELSE [ok |-> FALSE, db |-> d0]

SessionCommit(d, s) == Flush(d, d, s)

\* A bug Teardown could have: a session that outlives the request.
TeardownKeep(s) == s

\* The request teardown (shutdown_session of Flask-SQLAlchemy) removes the
\* scoped session: what it held and did not commit is rolled back.
Teardown(s) == << >>

\* ------------------------------------------------------------- requests
Names == {"A", "B"}
Latitudes == {123456, 1234567}
Longitudes == {7}
Coordinates == {"[[[0,0],[0,1],[1,1]]]", "not json"}

Json(S) == {<<v>> : v \in S}

\* JSON bodies sent to /point without their id: complete ones, one with a null,
\* and ones that lack a key.
PointBodies ==
    [name : Json(Names), latitude : Json(Latitudes), longitude : Json(Longitudes)]
    \cup [name : {<<"B">>}, latitude : {Null}, longitude : Json(Longitudes)]
    \cup [name : {<<"B">>}, latitude : Json(Latitudes)]
    \cup [latitude : {<<123456>>}, longitude : Json(Longitudes)]

PolygonBodies ==
    [name : Json(Names), coordinates : Json(Coordinates)]
    \cup [name : {<<"A">>}, coordinates : {Null}]
    \cup [name : Json(Names)]

Bodies(route) == IF route = "point" THEN PointBodies ELSE PolygonBodies

Routes == {"point", "polygon"}

PostRequests ==
    UNION {{[method |-> "POST", route |-> rt, data |-> b] : b \in Bodies(rt)} : rt \in Routes}

PutRequests ==
    UNION {{[method |-> "PUT", route |-> rt, data |-> [id |-> i] @@ b]
            : b \in Bodies(rt), i \in Ids} : rt \in Routes}

GetRequests == {[method |-> "GET", route |-> rt, id |-> i] : rt \in Routes, i \in Ids}

Requests == PostRequests \cup PutRequests \cup GetRequests

NoRequest == [method |-> "NONE"]

\* ------------------------------------------------------------- responses
NoResponse == [status |-> 0]

\* jsonify({'message': '... saved successfully'})
Saved(route) ==
    [status |-> 200,
     body |-> [message |-> IF route = "point" THEN "Point saved successfully"
                                              ELSE "Polygon saved successfully"]]

\* A bug NotFound could have: one message for both resources.
NotFoundGeneric(route) == [status |-> 404, body |-> [error |-> "Not found"]]

\* jsonify({'error': '... not found'}), 404
NotFound(route) ==
    [status |-> 404,
     body |-> [error |-> IF route = "point" THEN "Point not found"
                                            ELSE "Polygon not found"]]

\* jsonify of the id and the attributes of the row a GET found.
Found(route, row) ==
    [status |-> 200,
     body |-> [k \in {"id"} \cup ColumnSet(TableOf(route)) |-> row[k]]]

\* An exception no handler catches: Flask answers 500.
ServerError(exc) == [status |-> 500, body |-> [exception |-> exc]]

\* data[k] for a key k the body lacks.
KeyError(k) == [status |-> 500, body |-> [exception |-> "KeyError", key |-> k]]

\* ------------------------------------------------------------- state
VARIABLES
    tables_initialized,  \* the global flag of app.py
    schema,              \* the tables that exist in the database
    db,                  \* the committed rows and the AUTO_INCREMENT counters
    pc,                  \* pc[t]: where thread t is in its request
    req,                 \* req[t]: the request whose handler thread t runs
    missing,             \* missing[t]: the tables create_all found absent
    session,             \* session[t]: the objects of thread t's db.session
    resp,                \* resp[t]: the response thread t has produced
    create_all_calls,    \* history: how many times db.create_all() was called
    posted               \* history: posted[tbl] holds, for each row a POST made
                         \* and no PUT has named since, its id and POSTed body

vars == <<tables_initialized, schema, db, pc, req, missing, session, resp,
          create_all_calls, posted>>

Init ==
    /\ tables_initialized = FALSE
    /\ schema = {}
    /\ db = EmptyDb
    /\ pc = [t \in Threads |-> "idle"]
    /\ req = [t \in Threads |-> NoRequest]
    /\ missing = [t \in Threads |-> {}]
    /\ session = [t \in Threads |-> << >>]
    /\ resp = [t \in Threads |-> NoResponse]
    /\ create_all_calls = 0
    /\ posted = [tbl \in Tables |-> {}]

\* What the thread keeps of a request once it has answered it.
Line(r) ==
    IF r.method = "POST" THEN [method |-> "POST", route |-> r.route]
    ELSE [method |-> r.method, route |-> r.route,
          id |-> IF r.method = "PUT" THEN r.data.id ELSE r.id]

\* A request ends: its response is recorded and its session torn down.
Finish(t, line, response, s) ==
    /\ pc' = [pc EXCEPT ![t] = "done"]
    /\ req' = [req EXCEPT ![t] = line]
    /\ resp' = [resp EXCEPT ![t] = response]
    /\ session' = [session EXCEPT ![t] = Teardown(s)]

\* ------------------------------------------------------------- server
\* The server hands a request to an idle thread.
Accept(t) ==
    /\ pc[t] = "idle"
    /\ pc' = [pc EXCEPT ![t] = "before_request"]
    /\ UNCHANGED <<tables_initialized, schema, db, req, missing, session, resp,
                   create_all_calls, posted>>

\* The response has been sent; the thread is idle again.
Return(t) ==
    /\ pc[t] = "done"
    /\ pc' = [pc EXCEPT ![t] = "idle"]
    /\ req' = [req EXCEPT ![t] = NoRequest]
    /\ resp' = [resp EXCEPT ![t] = NoResponse]
    /\ UNCHANGED <<tables_initialized, schema, db, missing, session,
                   create_all_calls, posted>>

\* ------------------------------------------------------------- create_tables
\* A bug CheckFlag could have: the flag set before db.create_all() has run.
CheckFlagEager(t) ==
    /\ pc[t] = "before_request"
    /\ IF tables_initialized
       THEN /\ pc' = [pc EXCEPT ![t] = "handler"]
            /\ UNCHANGED <<create_all_calls, tables_initialized>>
       ELSE /\ pc' = [pc EXCEPT ![t] = "create_all"]
            /\ create_all_calls' = create_all_calls + 1
            /\ tables_initialized' = TRUE
    /\ UNCHANGED <<schema, db, req, missing, session, resp, posted>>

\* if not tables_initialized: ... db.create_all() is entered
CheckFlag(t) ==
    /\ pc[t] = "before_request"
    /\ IF tables_initialized
       THEN /\ pc' = [pc EXCEPT ![t] = "handler"]
            /\ UNCHANGED create_all_calls
       ELSE /\ pc' = [pc EXCEPT ![t] = "create_all"]
            /\ create_all_calls' = create_all_calls + 1
    /\ UNCHANGED <<tables_initialized, schema, db, req, missing, session, resp, posted>>

\* db.create_all() first asks the database which of the tables exist
\* (checkfirst) ...
CreateAllCheck(t) ==
    /\ pc[t] = "create_all"
    /\ missing' = [missing EXCEPT ![t] = Tables \ schema]
    /\ pc' = [pc EXCEPT ![t] = "create"]
    /\ UNCHANGED <<tables_initialized, schema, db, req, session, resp,
                   create_all_calls, posted>>

\* ... and then issues CREATE TABLE for each table it found absent, point_data
\* first.  CREATE TABLE of a table that exists by now is an error, which
\* leaves create_tables before the flag is set.
CreateAllCreate(t) ==
    /\ pc[t] = "create"
    /\ IF missing[t] = {}
       THEN /\ pc' = [pc EXCEPT ![t] = "set_flag"]
            /\ UNCHANGED <<schema, missing, req, session, resp>>
       ELSE LET tbl == IF "point_data" \in missing[t] THEN "point_data"
                                                     ELSE "polygon_data"
            IN  IF tbl \in schema
                THEN /\ Finish(t, NoRequest,
                               ServerError("OperationalError: table exists"), session[t])
                     /\ missing' = [missing EXCEPT ![t] = {}]
                     /\ UNCHANGED schema
                ELSE /\ schema' = schema \cup {tbl}
                     /\ missing' = [missing EXCEPT ![t] = @ \ {tbl}]
                     /\ UNCHANGED <<pc, req, session, resp>>
    /\ UNCHANGED <<tables_initialized, db, create_all_calls, posted>>

\* tables_initialized = True
SetFlag(t) ==
    /\ pc[t] = "set_flag"
    /\ tables_initialized' = TRUE
    /\ pc' = [pc EXCEPT ![t] = "handler"]
    /\ UNCHANGED <<schema, db, req, missing, session, resp, create_all_calls, posted>>

\* ------------------------------------------------------------- handlers
\* A statement sent to a table that does not exist fails.
NoTable(tbl) == ServerError("ProgrammingError: no such table")

\* POSTs are sent while the database, counting the rows about to be committed,
\* holds fewer than MaxRows rows.
Room(t) ==
    Cardinality(db.point_data) + Cardinality(db.polygon_data)
    + Cardinality({u \in Threads \ {t} : pc[u] = "commit" /\ req[u].method = "POST"})
    < MaxRows

\* The reads data['name'], ... in the order of the code, each stored in the
\* object (the constructor's keyword, or the assignment point.name = ...): the
\* object after them, and whether all were made (a KeyError stops at the first
\* key the body lacks).
RECURSIVE AssignFrom(_, _, _)
AssignFrom(o, data, cols) ==
    IF cols = << >> THEN [ok |-> TRUE, obj |-> o, key |-> ""]
    ELSE IF Head(cols) \notin DOMAIN data THEN [ok |-> FALSE, obj |-> o, key |-> Head(cols)]
    ELSE AssignFrom([o EXCEPT !.attrs = [c \in DOMAIN @ \cup {Head(cols)} |->
                                          IF c = Head(cols) THEN data[c] ELSE @[c]]],
                    data, Tail(cols))

\* handle_point / handle_polygon, POST, up to the commit: build the object from
\* data['name'], ... (a KeyError when a key is absent) and add it to the session.
HandlePost(t, r) ==
    LET tbl == TableOf(r.route)
        a == AssignFrom(NewObject(tbl, << >>), r.data, Columns(tbl))
    IN
    /\ pc[t] = "handler"
    /\ r.method = "POST"
    /\ Room(t)
    /\ IF a.ok
       THEN /\ session' = [session EXCEPT ![t] = Append(@, a.obj)]
            /\ pc' = [pc EXCEPT ![t] = "commit"]
            /\ req' = [req EXCEPT ![t] = r]
            /\ UNCHANGED resp
       ELSE Finish(t, Line(r), KeyError(a.key), session[t])
    /\ UNCHANGED <<tables_initialized, schema, db, missing, create_all_calls, posted>>

\* handle_point / handle_polygon, PUT, up to the commit: query.get(data['id']),
\* 404 when there is no such row, else the assignments to the loaded object.
\* The assignments touch only the thread's own object, so they are one step
\* with the query.
HandlePut(t, r) ==
    LET tbl == TableOf(r.route)
        found == Get(db, tbl, r.data.id)
        a == AssignFrom(LoadedObject(tbl, CHOOSE row \in found : TRUE),
                        r.data, Columns(tbl))
    IN
    /\ pc[t] = "handler"
    /\ r.method = "PUT"
    /\ IF tbl \notin schema
       THEN Finish(t, Line(r), NoTable(tbl), session[t])
       ELSE IF found = {}
       THEN Finish(t, Line(r), NotFound(r.route), session[t])
       ELSE IF ~a.ok
       THEN Finish(t, Line(r), KeyError(a.key), Append(session[t], a.obj))
       ELSE /\ session' = [session EXCEPT ![t] = Append(@, a.obj)]
            /\ pc' = [pc EXCEPT ![t] = "commit"]
            /\ req' = [req EXCEPT ![t] = r]
            /\ UNCHANGED resp
    /\ UNCHANGED <<tables_initialized, schema, db, missing, create_all_calls, posted>>

\* db.session.commit() and the success response.
CommitStep(t) ==
    LET r == req[t]
        tbl == TableOf(r.route)
        res == SessionCommit(db, session[t])
    IN
    /\ pc[t] = "commit"
    /\ IF tbl \notin schema
       THEN /\ Finish(t, Line(r), NoTable(tbl), session[t])
            /\ UNCHANGED db
       ELSE IF res.ok
       THEN /\ db' = res.db
            /\ Finish(t, Line(r), Saved(r.route), << >>)
       ELSE /\ Finish(t, Line(r), ServerError("IntegrityError"), session[t])
            /\ UNCHANGED db
    /\ UNCHANGED <<tables_initialized, schema, missing, create_all_calls>>

Commit(t) == CommitStep(t) /\ UNCHANGED posted

\* The commit, with the history of POSTed bodies kept: a POST's row enters it,
\* a PUT takes the row it names out of it.
CommitRecorded(t) ==
    LET r == req[t]
        tbl == TableOf(r.route)
    IN
    /\ CommitStep(t)
    /\ posted' = IF db' = db /\ resp'[t] # Saved(r.route) THEN posted
                 ELSE [posted EXCEPT ![tbl] =
                         IF r.method = "POST"
                         THEN @ \cup {[id |-> NextId(db, tbl), data |-> r.data]}
                         ELSE {p \in @ : p.id # r.data.id}]

\* get_point / get_polygon
HandleGet(t, r) ==
    LET tbl == TableOf(r.route)
        found == Get(db, tbl, r.id)
    IN
    /\ pc[t] = "handler"
    /\ r.method = "GET"
    /\ IF tbl \notin schema THEN Finish(t, Line(r), NoTable(tbl), session[t])
       ELSE IF found = {} THEN Finish(t, Line(r), NotFound(r.route), session[t])
       ELSE Finish(t, Line(r), Found(r.route, CHOOSE row \in found : TRUE), session[t])
    /\ UNCHANGED <<tables_initialized, schema, db, missing, create_all_calls, posted>>

\* ------------------------------------------------------------- specification
\* The steps before and after the commit.
Other(t) ==
    \/ Accept(t)
    \/ CheckFlag(t)
    \/ CreateAllCheck(t)
    \/ CreateAllCreate(t)
    \/ SetFlag(t)
    \/ \E r \in PostRequests : HandlePost(t, r)
    \/ \E r \in PutRequests : HandlePut(t, r)
    \/ \E r \in GetRequests : HandleGet(t, r)
    \/ Return(t)

Next == \E t \in Threads : Other(t) \/ Commit(t)

Spec == Init /\ [][Next]_vars

\* The same program served by one thread, with the history variable posted
\* maintained.
NextRecorded == \E t \in {1} : Other(t) \/ CommitRecorded(t)

SpecRecorded == Init /\ [][NextRecorded]_vars

\* ------------------------------------------------------------- properties
\* Thread t ends its request with its commit in this step.
CommitOf(t) == pc[t] = "commit" /\ pc'[t] = "done"

HasRow(tbl, id) == \E row \in db[tbl] : row.id = id

ErrorBody(route) ==
    [error |-> IF route = "point" THEN "Point not found" ELSE "Polygon not found"]

MessageBody(route) ==
    [message |-> IF route = "point" THEN "Point saved successfully"
                                    ELSE "Polygon saved successfully"]

\* C5: db.create_all() is executed exactly once in the lifetime of the process,
\* however many first requests are handled concurrently: no request is in or
\* past its handler before a call, there is never a second call, and no
\* request is answered with a duplicate-table error.
C5_CreateAllOnce ==
    /\ create_all_calls <= 1
    /\ \A t \in Threads :
          /\ pc[t] \in {"handler", "commit"} => create_all_calls >= 1
          /\ resp[t] # [status |-> 500,
                        body |-> [exception |-> "OperationalError: table exists"]]

\* C9: no handler runs (no lookup, insert, update or commit is made) before a
\* table creation has completed: a thread in its handler or at its commit has
\* both tables, no statement ever meets a missing table, tables_initialized is
\* true only once the tables exist, and once true it stays true.
C9_TablesBeforeHandlers ==
    [][/\ \A t \in Threads :
             /\ pc'[t] \in {"handler", "commit"} => schema' = {"point_data", "polygon_data"}
             /\ resp'[t].status = 500 =>
                   resp'[t].body.exception # "ProgrammingError: no such table"
       /\ tables_initialized' => schema' = {"point_data", "polygon_data"}
       /\ tables_initialized => tables_initialized']_vars

\* Several requests arrived before the flag was set: one is in its handler
\* while another is still inside db.create_all().
C9_Witness ==
    \E t, u \in Threads :
        /\ t # u
        /\ pc[t] \in {"handler", "commit"}
        /\ pc[u] \in {"create_all", "create"}

\* The request whose handler thread t starts in this step, and the id it names.
Handles(t, method) == pc[t] = "handler" /\ pc'[t] # "handler" /\ req'[t].method = method

NamedId(r) == IF "id" \in DOMAIN r THEN r.id ELSE r.data.id

\* C1: a PUT whose id matches no stored row is answered 404 with the error of
\* its resource and leaves both tables (and the id counters) as they were.
C1_PutUnknownId404 ==
    [][\A t \in Threads :
          (Handles(t, "PUT") /\ ~HasRow(TableOf(req'[t].route), NamedId(req'[t])))
          => /\ pc'[t] = "done"
             /\ resp'[t] = [status |-> 404, body |-> ErrorBody(req'[t].route)]
             /\ db' = db]_vars

\* A PUT to /point was answered 404 while point_data holds a row.
C1_Witness ==
    \E t \in Threads :
        /\ pc[t] = "done"
        /\ req[t].method = "PUT" /\ req[t].route = "point"
        /\ resp[t].status = 404
        /\ db.point_data # {}

\* C7: a GET for an id with no stored row is answered 404 with the error of
\* its resource, and no GET, hit or miss, changes a row of either table.
C7_GetUnknownId404 ==
    [][\A t \in Threads :
          Handles(t, "GET")
          => /\ pc'[t] = "done"
             /\ db' = db
             /\ ~HasRow(TableOf(req'[t].route), req'[t].id)
                  => resp'[t] = [status |-> 404, body |-> ErrorBody(req'[t].route)]]_vars

\* A GET of /polygon/{id} was answered 404 while polygon_data holds a row.
C7_Witness ==
    \E t \in Threads :
        /\ pc[t] = "done"
        /\ req[t].method = "GET" /\ req[t].route = "polygon"
        /\ resp[t].status = 404
        /\ db.polygon_data # {}

\* C10: a request to /point changes no row of polygon_data and a request to
\* /polygon none of point_data; no step removes a row or an id from a table;
\* and a GET of an id that has a row is answered 200 with that id, so a GET
\* that was answered 200 is answered 200 with the same id ever after.
C10_IndependentPermanent ==
    [][/\ \A t \in Threads :
             (pc[t] \in {"handler", "commit"} /\ pc'[t] # pc[t])
             => IF req'[t].route = "point" THEN db'.polygon_data = db.polygon_data
                                           ELSE db'.point_data = db.point_data
       /\ \A tbl \in {"point_data", "polygon_data"} :
             /\ {row.id : row \in db[tbl]} \subseteq {row.id : row \in db'[tbl]}
             /\ Cardinality(db[tbl]) <= Cardinality(db'[tbl])
       /\ \A t \in Threads :
             (Handles(t, "GET") /\ HasRow(TableOf(req'[t].route), req'[t].id))
             => resp'[t].status = 200 /\ resp'[t].body.id = req'[t].id]_vars

\* Both tables hold a row and a GET has been answered 200.
C10_Witness ==
    /\ db.point_data # {}
    /\ db.polygon_data # {}
    /\ \E t \in Threads :
          pc[t] = "done" /\ req[t].method = "GET" /\ resp[t].status = 200

\* C3: every successful POST adds exactly one row, whose id no row of that
\* table has (rows are never removed, so: ever had); no two rows of a table
\* share an id; and the POST's response body is the success message alone.
C3_PostFreshId ==
    [][/\ \A t \in Threads :
             (CommitOf(t) /\ req[t].method = "POST" /\ resp'[t].status = 200)
             => LET tbl == TableOf(req[t].route) IN
                /\ \E row \in db'[tbl] :
                      /\ row \notin db[tbl]
                      /\ db'[tbl] = db[tbl] \cup {row}
                      /\ row.id \in Nat
                      /\ \A old \in db[tbl] : old.id # row.id
                /\ Cardinality(db'[tbl]) = Cardinality(db[tbl]) + 1
                /\ resp'[t].body = MessageBody(req[t].route)
       /\ \A tbl \in {"point_data", "polygon_data"} :
             \A r1, r2 \in db'[tbl] : r1.id = r2.id => r1 = r2]_vars

\* A POST has been answered 200 and its table holds two rows.
C3_Witness ==
    \E t \in Threads :
        /\ pc[t] = "done"
        /\ req[t].method = "POST"
        /\ resp[t].status = 200
        /\ Cardinality(db[TableOf(req[t].route)]) = 2

PointColumns == {"name", "latitude", "longitude"}

\* The body has every mutable point field, none of them null.
CompletePoint(data) ==
    PointColumns \subseteq DOMAIN data /\ \A c \in PointColumns : data[c] # Null

\* C6: every stored point row has its id and its three fields, none null; a
\* request that ends in an error (a key missing after earlier fields were
\* assigned, a null for a required field) changes no row; and every new
\* version of a point row comes from the commit of a complete request of its
\* own thread: a POST's new row, or the row a PUT names with each field either
\* as it was or as that PUT's body gives it.  So no half-applied assignment is
\* made durable, by its own request or by a later commit.
C6_NoPartialPoint ==
    [][/\ \A row \in db'.point_data :
             /\ DOMAIN row = {"id"} \cup PointColumns
             /\ row.id \in Nat
             /\ \A c \in PointColumns : row[c] # Null
       /\ \A t \in Threads :
             (pc[t] # "done" /\ pc'[t] = "done" /\ resp'[t].status = 500) => db' = db
       /\ \A row \in db'.point_data \ db.point_data :
             \E t \in Threads :
                /\ CommitOf(t)
                /\ req[t].route = "point"
                /\ CompletePoint(req[t].data)
                /\ IF req[t].method = "POST"
                   THEN /\ \A old \in db.point_data : old.id # row.id
                        /\ \A c \in PointColumns : row[c] = ColumnValue(c, req[t].data[c])
                   ELSE /\ row.id = req[t].data.id
                        /\ \E old \in db.point_data :
                              /\ old.id = row.id
                              /\ \A c \in PointColumns :
                                    \/ row[c] = old[c]
                                    \/ row[c] = ColumnValue(c, req[t].data[c])]_vars

\* One PUT to /point found its row, assigned name and latitude and failed on
\* the missing longitude; another failed at its commit on a null latitude.
C6_Witness ==
    \E t, u \in Threads :
        /\ pc[t] = "done"
        /\ req[t].method = "PUT" /\ req[t].route = "point"
        /\ resp[t] = [status |-> 500, body |-> [exception |-> "KeyError", key |-> "longitude"]]
        /\ \E row \in db.point_data : row.id = req[t].id /\ row.name # <<"B">>
        /\ pc[u] = "done"
        /\ req[u].method = "PUT" /\ req[u].route = "point"
        /\ resp[u] = [status |-> 500, body |-> [exception |-> "IntegrityError"]]

\* The body has every mutable field of its table, none of them null.
Valid(tbl, data) ==
    \A c \in ColumnSet(tbl) : c \in DOMAIN data /\ data[c] # Null

\* C2: a PUT with a valid body that names a stored row is answered 200 and
\* sets the row's mutable fields to exactly the values of the body; the row
\* keeps its id, every other row of the table is unchanged and so is the
\* number of rows.
C2_PutOverwrites ==
    [][\A t \in Threads :
          (CommitOf(t) /\ req[t].method = "PUT"
             /\ Valid(TableOf(req[t].route), req[t].data))
          => LET tbl == TableOf(req[t].route)
                 data == req[t].data
             IN  /\ resp'[t].status = 200
                 /\ Cardinality(db'[tbl]) = Cardinality(db[tbl])
                 /\ \E old \in db[tbl], new \in db'[tbl] :
                       /\ old.id = data.id
                       /\ new.id = data.id
                       /\ \A c \in ColumnSet(tbl) : new[c] = data[c]
                       /\ db'[tbl] \ {new} = db[tbl] \ {old}]_vars

\* C8: last writer wins.  When a PUT commits and is answered 200 after
\* another PUT to the same row has committed since it loaded the row (the row
\* is no longer as this request loaded it), the row then holds, in every
\* mutable field, the value of this last request, as its column keeps it:
\* never a field of the earlier one.
C8_LastWriterWins ==
    [][\A t \in Threads :
          (CommitOf(t) /\ req[t].method = "PUT" /\ resp'[t].status = 200)
          => LET tbl == TableOf(req[t].route)
                 data == req[t].data
                 o == session[t][Len(session[t])]
             IN  \A cur \in db[tbl] :
                    (cur.id = data.id /\ Attrs(tbl, cur) # o.loaded)
                    => \E new \in db'[tbl] :
                          /\ new.id = data.id
                          /\ \A c \in ColumnSet(tbl) :
                                new[c] = ColumnValue(c, data[c])]_vars

\* C4: round trip.  A GET of a row that a POST made and no PUT has named since
\* is answered 200 with the row's id and exactly the POSTed values.
C4_RoundTrip ==
    [][\A t \in Threads :
          Handles(t, "GET")
          => \A p \in posted[TableOf(req'[t].route)] :
                p.id = req'[t].id
                => resp'[t] = [status |-> 200, body |-> [id |-> p.id] @@ p.data]]_vars

====
